---------------------------- MODULE Spec2Model ----------------------------
(***************************************************************************)
(* Model of the Twilio <-> Deepgram <-> OpenAI <-> ElevenLabs voice bridge  *)
(* of src/main.py: the websocket endpoint (receive loop), the Deepgram      *)
(* transcript callback on_message, and ConversationManager.handle_response. *)
(*                                                                         *)
(* Scheduling.  Everything runs on one asyncio event loop.  A coroutine     *)
(* runs without interleaving from one await to the next; the OpenAI call,   *)
(* the ElevenLabs call, the chunk collection and the pydub conversion are   *)
(* synchronous calls, so while a callback is inside one of them no other    *)
(* coroutine takes a step.  `running` is the callback that holds the loop   *)
(* (0: the loop is idle and any suspended coroutine may resume).            *)
(*                                                                         *)
(* Two pure parts are modelled on their own, with the bridge at rest: the   *)
(* tool webhook of src/vapi_agent.py (SpecWebhook) and the pydub conversion *)
(* of step 3 of handle_response (SpecTranscoder).                           *)
(***************************************************************************)
EXTENDS Integers, Sequences, FiniteSets, TLC

(***************************************************************************)
(* Bounds of the model.                                                     *)
(***************************************************************************)
\* Well-formed media events the receive loop reads in one run.
MaxMedia == 2

\* ConversationManager objects created in one run (valid start events).
MaxSessions == 2

\* Transcript events the Deepgram listener delivers in one run.
MaxHandlers == 2

\* Frame size of the outbound loop.  main.py:104 sets 2048; the model scales
\* it down so that buffers of several frames stay small.  2 and 2048 leave
\* the same remainder modulo 3, so full frames get the same base64 padding.
chunk_size == 2

(***************************************************************************)
(* Pure helpers.                                                            *)
(***************************************************************************)
Min(a, b) == IF a <= b THEN a ELSE b

\* Python's s[i:j] on a sequence (0-based, end exclusive, clipped).
Slice(s, i, j) == SubSeq(s, i + 1, Min(j, Len(s)))

\* The pad character "=" of base64, next to the sextets 0..63.
Pad == 64

Pow(b, e) == IF e = 0 THEN 1 ELSE IF e = 1 THEN b ELSE IF e = 2 THEN b * b ELSE b * b * b

\* base64.b64encode: every 3 bytes become 4 sextets; a last group of 1 or 2
\* bytes is zero-filled and padded with "=".
B64Encode(b) ==
  LET n == Len(b)
      byteAt(k) == IF k <= n THEN b[k] ELSE 0
      group(g) == byteAt(3 * g + 1) * 65536 + byteAt(3 * g + 2) * 256 + byteAt(3 * g + 3)
  IN [j \in 1..(4 * ((n + 2) \div 3)) |->
        LET g == (j - 1) \div 4
            k == (j - 1) % 4
        IN IF 3 * g + k > n THEN Pad
           ELSE (group(g) \div Pow(64, 3 - k)) % 64]

\* Whether base64.b64decode accepts the text: whole groups of 4, padding
\* only as the last one or two characters (else binascii.Error).
B64Valid(s) ==
  /\ Len(s) % 4 = 0
  /\ \A j \in 1..Len(s) :
       s[j] = Pad => /\ j >= Len(s) - 1
                     /\ s[Len(s)] = Pad

\* base64.b64decode of an accepted text.
B64Decode(s) ==
  LET npad == Cardinality({j \in 1..Len(s) : s[j] = Pad})
      sext(j) == IF s[j] = Pad THEN 0 ELSE s[j]
      group(g) == sext(4 * g + 1) * 262144 + sext(4 * g + 2) * 4096
                    + sext(4 * g + 3) * 64 + sext(4 * g + 4)
  IN [i \in 1..(3 * (Len(s) \div 4) - npad) |->
        LET g == (i - 1) \div 3
            k == (i - 1) % 3
        IN (group(g) \div Pow(256, 2 - k)) % 256]

\* b"".join(chunks)
RECURSIVE Join(_)
Join(chunks) == IF chunks = <<>> THEN <<>> ELSE Head(chunks) \o Join(Tail(chunks))

\* ceil(n / f), as main.py:105 computes total_chunks.
CeilDiv(n, f) == (n + f - 1) \div f

(***************************************************************************)
(* Inputs.                                                                  *)
(***************************************************************************)
\* Stream identifiers a start event may carry (0 stands for a missing one).
Sids == {1}

\* Raw mu-law audio a caller's media event may carry.
InboundAudio == { <<0, 1, 2, 255>> }

\* One inbound websocket text, by what json.loads and the field accesses of
\* the receive loop make of it.
InboundMsg(json, event, sid, has, payload) ==
  [json |-> json, event |-> event, start_sid |-> sid,
   has_payload |-> has, payload |-> payload]

NotJson == InboundMsg(FALSE, "", 0, FALSE, <<>>)
ConnectedMsg == InboundMsg(TRUE, "connected", 0, FALSE, <<>>)
StopMsg == InboundMsg(TRUE, "stop", 0, FALSE, <<>>)
StartMsg(sid) == InboundMsg(TRUE, "start", sid, FALSE, <<>>)
MediaMsg(p) == InboundMsg(TRUE, "media", 0, TRUE, p)
MediaNoPayload == InboundMsg(TRUE, "media", 0, FALSE, <<>>)

\* A payload b64decode rejects ("Incorrect padding").
BadPayload == <<1>>

\* The texts the telephony side may send.
WellFormed ==
  {ConnectedMsg, StopMsg} \cup {StartMsg(sid) : sid \in Sids}
    \cup {MediaMsg(B64Encode(a)) : a \in InboundAudio}

Malformed == {NotJson, StartMsg(0), MediaNoPayload, MediaMsg(BadPayload)}

\* Transcripts Deepgram reports.
Sentences == {"", "hello"}

\* What iterating the ElevenLabs stream yields: the MP3 chunks.
MP3Streams == { <<>>, << <<73, 68>>, <<51>> >> }

\* What pydub's export yields: the mu-law bytes of the reply.
Buffers == { <<>>, <<7>>, <<0, 255>>, <<1, 2, 3, 250, 251>> }


(***************************************************************************)
(* State.                                                                   *)
(***************************************************************************)
VARIABLES
  pc_ep,                 \* where websocket_endpoint is
  exc,                   \* the exception that left websocket_endpoint
  ws_open,               \* the Twilio websocket still accepts sends
  dg_open,               \* dg_connection.start has completed
  dispatch,              \* how the Deepgram client runs its callbacks
  suppress,              \* barge-in policy of the media branch
  nMedia,                \* well-formed media events read so far
  stream_sid,            \* websocket_endpoint's stream_sid (0: None)
  conversation_manager,  \* index into managers (0: None)
  managers,              \* the ConversationManager objects created so far
  dg_sent,               \* audio handed to dg_connection.send, in order
  tasks,                 \* the on_message invocations, by delivery order
  nDelivered,            \* transcript events delivered so far
  running,               \* the invocation holding the event loop (0: idle)
  ws_sent                \* websocket.send_text calls that ended, in order

\* The tool webhook of src/vapi_agent.py and the pydub conversion of
\* handle_response, each taken on its own: one request, one conversion.
VARIABLES
  request,               \* the webhook's request: payload and environment
  webhook,               \* where vapi_webhook is, its results, its response
  mp3_input,             \* the audio ElevenLabs returned, as ffmpeg sees it
  conversion             \* where the pydub conversion is, and its values

pureVars == << request, webhook, mp3_input, conversion >>

vars == << pc_ep, exc, ws_open, dg_open, dispatch, suppress, pureVars, nMedia,
           stream_sid, conversation_manager, managers, dg_sent, tasks,
           nDelivered, running, ws_sent >>

\* What websocket_endpoint alone writes.
epVars == << pc_ep, exc, ws_open, dg_open, nMedia, stream_sid,
             conversation_manager, dg_sent >>

Handlers == 1..MaxHandlers

\* An on_message invocation that has not been made yet.
NoTask ==
  [pc |-> "none", sentence |-> "", is_final |-> FALSE, cm |-> 0,
   accepted |-> FALSE, mp3_data |-> <<>>, output_bytes |-> <<>>, i |-> 0,
   llm_calls |-> 0, respond_calls |-> 0, failed |-> "none"]

Finished == {"done", "raised", "cancelled"}

InFlight(h) == tasks[h].pc \notin (Finished \cup {"none"})

\* The state after `await websocket.accept()` and lines 150-151.
InitCommon ==
  /\ pc_ep = "dg_start"
  /\ exc = "none"
  /\ ws_open = TRUE
  /\ dg_open = FALSE
  /\ dispatch \in {"sequential", "concurrent"}
  /\ nMedia = 0
  /\ stream_sid = 0
  /\ conversation_manager = 0
  /\ managers = <<>>
  /\ dg_sent = <<>>
  /\ tasks = [h \in Handlers |-> NoTask]
  /\ nDelivered = 0
  /\ running = 0
  /\ ws_sent = <<>>

\* No webhook request and no conversion under way.
NoRequest == [type |-> "none", has_toolCalls |-> FALSE, toolCalls |-> <<>>,
              has_key |-> FALSE]

WebhookIdle == [pc |-> "idle", n |-> 0, results |-> <<>>, status |-> 0]

NoAudio == [decodes |-> FALSE, frame_rate |-> 0, channels |-> 0,
            duration_ms |-> 0]

NoSegment == [frame_rate |-> 0, channels |-> 0, frame_count |-> 0]

NoOutput == [encoding |-> "none", frame_rate |-> 0, channels |-> 0,
             nbytes |-> 0]

ConversionIdle == [pc |-> "idle", audio_segment |-> NoSegment,
                   resampled_audio |-> NoSegment, output |-> NoOutput]

PureIdle ==
  /\ request = NoRequest
  /\ webhook = WebhookIdle
  /\ mp3_input = NoAudio
  /\ conversion = ConversionIdle

\* src/main.py forwards inbound audio unconditionally.
Init ==
  /\ InitCommon
  /\ suppress = FALSE
  /\ PureIdle

(***************************************************************************)
(* websocket_endpoint.                                                      *)
(***************************************************************************)
\* await dg_connection.start(...) completes.
DgStartOk ==
  /\ pc_ep = "dg_start"
  /\ running = 0
  /\ pc_ep' = "receive"
  /\ dg_open' = TRUE
  /\ UNCHANGED << exc, ws_open, dispatch, suppress, pureVars, nMedia, stream_sid,
                  conversation_manager, managers, dg_sent, tasks, nDelivered,
                  running, ws_sent >>

\* An exception other than WebSocketDisconnect: no except clause of lines
\* 198-203 matches, the finally block runs and the error leaves
\* websocket_endpoint, which ends the connection.
Raise(e) ==
  /\ pc_ep' = "raised"
  /\ exc' = e
  /\ ws_open' = FALSE

\* dg_connection.start(...) fails and the failure is swallowed: the receive
\* loop starts all the same.
DgStartRaiseGoesOn ==
  /\ pc_ep = "dg_start"
  /\ running = 0
  /\ pc_ep' = "receive"
  /\ exc' = "ConnectError"
  /\ UNCHANGED << ws_open, dg_open, dispatch, suppress, pureVars, nMedia, stream_sid,
                  conversation_manager, managers, dg_sent, tasks, nDelivered,
                  running, ws_sent >>

\* await dg_connection.start(...) raises.
DgStartRaise ==
  /\ pc_ep = "dg_start"
  /\ running = 0
  /\ Raise("ConnectError")
  /\ UNCHANGED << dg_open, dispatch, suppress, pureVars, nMedia, stream_sid,
                  conversation_manager, managers, dg_sent, tasks, nDelivered,
                  running, ws_sent >>

\* The receive loop is suspended at websocket.receive_text() and reads the
\* next text.
CanReceive ==
  /\ pc_ep = "receive"
  /\ running = 0

\* The exception lines 183-192 raise on a text, "none" if they raise none:
\* json.loads on a text that is not JSON, data['start']['streamSid'] or
\* data['media']['payload'] on a missing key, b64decode on a bad payload.
DecodeError(m) ==
  IF ~m.json THEN "JSONDecodeError"
  ELSE IF m.event = "start" /\ m.start_sid = 0 THEN "KeyError"
  ELSE IF m.event = "media" /\ ~m.has_payload THEN "KeyError"
  ELSE IF m.event = "media" /\ ~B64Valid(m.payload) THEN "binascii.Error"
  ELSE "none"

\* A text the loop cannot decode: the exception is not caught.
RecvMalformed(m) ==
  /\ CanReceive
  /\ DecodeError(m) # "none"
  /\ Raise(DecodeError(m))
  /\ UNCHANGED << dg_open, dispatch, suppress, pureVars, nMedia, stream_sid,
                  conversation_manager, managers, dg_sent, tasks, nDelivered,
                  running, ws_sent >>

\* event == 'start' with data['start']['streamSid'] present: a new
\* ConversationManager replaces whatever conversation_manager held.
RecvStart(m) ==
  /\ CanReceive
  /\ m.event = "start"
  /\ DecodeError(m) = "none"
  /\ Len(managers) < MaxSessions
  /\ stream_sid' = m.start_sid
  /\ managers' = Append(managers, [stream_sid |-> m.start_sid,
                                   is_speaking |-> FALSE])
  /\ conversation_manager' = Len(managers) + 1
  /\ UNCHANGED << pc_ep, exc, ws_open, dg_open, dispatch, suppress, pureVars, nMedia,
                  dg_sent, tasks, nDelivered, running, ws_sent >>

\* Whether the ConversationManager the endpoint holds is speaking.
Speaking ==
  /\ conversation_manager # 0
  /\ managers[conversation_manager].is_speaking

\* Forwarding whatever the session does.
ForwardAlways == TRUE

\* The media branch's condition for forwarding.  main.py forwards always;
\* under the suppression policy audio is forwarded only while the session is
\* not speaking.
ForwardAllowed == ~(suppress /\ Speaking)

\* event == 'media' with a decodable payload:
\* await dg_connection.send(base64.b64decode(data['media']['payload']))
RecvMedia(m) ==
  /\ CanReceive
  /\ m.event = "media"
  /\ DecodeError(m) = "none"
  /\ nMedia < MaxMedia
  /\ nMedia' = nMedia + 1
  /\ dg_sent' = IF ForwardAllowed THEN Append(dg_sent, B64Decode(m.payload))
                ELSE dg_sent
  /\ UNCHANGED << pc_ep, exc, ws_open, dg_open, dispatch, suppress, pureVars, stream_sid,
                  conversation_manager, managers, tasks, nDelivered, running,
                  ws_sent >>

\* event == 'stop': break, then the finally block, then return.
RecvStop ==
  /\ CanReceive
  /\ pc_ep' = "stopped"
  /\ ws_open' = FALSE
  /\ UNCHANGED << exc, dg_open, dispatch, suppress, pureVars, nMedia, stream_sid,
                  conversation_manager, managers, dg_sent, tasks, nDelivered,
                  running, ws_sent >>

\* Any other event ('connected', ...): no branch matches, the loop goes on.
RecvOther(m) ==
  /\ CanReceive
  /\ m.json
  /\ m.event \notin {"start", "media", "stop"}
  /\ UNCHANGED vars

\* receive_text raises WebSocketDisconnect: caught, finally, return.
Disconnect ==
  /\ CanReceive
  /\ pc_ep' = "disconnected"
  /\ ws_open' = FALSE
  /\ UNCHANGED << exc, dg_open, dispatch, suppress, pureVars, nMedia, stream_sid,
                  conversation_manager, managers, dg_sent, tasks, nDelivered,
                  running, ws_sent >>

(***************************************************************************)
(* on_message: the Deepgram transcript callback.                            *)
(***************************************************************************)
\* The Deepgram client may call on_message for the next transcript.  A client
\* that awaits each callback before reading on ("sequential") calls it only
\* when no earlier invocation is still running; one that starts callbacks as
\* tasks ("concurrent") does not wait.
CanDeliver ==
  /\ dg_open
  /\ running = 0
  /\ nDelivered < MaxHandlers
  /\ dispatch = "sequential" => \A h \in Handlers : ~InFlight(h)

\* on_message without the is_final test of line 164.
OnMessageAnyResult(sentence, is_final) ==
  LET h == nDelivered + 1
      go == sentence # "" /\ conversation_manager # 0
  IN /\ CanDeliver
     /\ nDelivered' = h
     /\ tasks' = [tasks EXCEPT ![h] =
                    [NoTask EXCEPT !.sentence = sentence,
                                   !.is_final = is_final,
                                   !.cm = conversation_manager,
                                   !.pc = IF go THEN "llm" ELSE "done",
                                   !.llm_calls = IF go THEN 1 ELSE 0]]
     /\ running' = IF go THEN h ELSE 0
     /\ UNCHANGED << epVars, dispatch, suppress, pureVars, managers, ws_sent >>

\* Lines 158-164: an empty transcript returns at once; a final one with a
\* ConversationManager in place goes on to the OpenAI call (a synchronous
\* call: the invocation keeps the event loop); anything else returns.
\* cm is the ConversationManager the closure variable holds during the call.
OnMessage(sentence, is_final) ==
  LET h == nDelivered + 1
      go == sentence # "" /\ is_final /\ conversation_manager # 0
  IN /\ CanDeliver
     /\ nDelivered' = h
     /\ tasks' = [tasks EXCEPT ![h] =
                    [NoTask EXCEPT !.sentence = sentence,
                                   !.is_final = is_final,
                                   !.cm = conversation_manager,
                                   !.pc = IF go THEN "llm" ELSE "done",
                                   !.llm_calls = IF go THEN 1 ELSE 0]]
     /\ running' = IF go THEN h ELSE 0
     /\ UNCHANGED << epVars, dispatch, suppress, pureVars, managers, ws_sent >>

\* Lines 167-174: openai_client.chat.completions.create(...) returns.
LlmReturn(h) ==
  /\ tasks[h].pc = "llm"
  /\ running = h
  /\ tasks' = [tasks EXCEPT ![h].pc = "respond"]
  /\ UNCHANGED << epVars, dispatch, suppress, pureVars, managers, nDelivered, running,
                  ws_sent >>

\* Lines 167-174 raise: on_message has no handler, the error leaves it.
LlmRaise(h) ==
  /\ tasks[h].pc = "llm"
  /\ running = h
  /\ tasks' = [tasks EXCEPT ![h].pc = "raised", ![h].failed = "llm"]
  /\ running' = 0
  /\ UNCHANGED << epVars, dispatch, suppress, pureVars, managers, nDelivered, ws_sent >>

(***************************************************************************)
(* ConversationManager.handle_response.                                     *)
(***************************************************************************)
SetSpeaking(s, v) == [managers EXCEPT ![s].is_speaking = v]

\* Line 175 and lines 39-43: on_message awaits handle_response on the
\* ConversationManager the closure variable holds (no other coroutine ran
\* since line 164).  If it is speaking the call returns; else it sets
\* is_speaking and goes on to the ElevenLabs call.
HandleResponse(h) ==
  LET s == tasks[h].cm
  IN /\ tasks[h].pc = "respond"
     /\ running = h
     /\ IF managers[s].is_speaking
          THEN /\ tasks' = [tasks EXCEPT ![h].pc = "done",
                                         ![h].respond_calls = 1]
               /\ running' = 0
               /\ UNCHANGED managers
          ELSE /\ tasks' = [tasks EXCEPT ![h].pc = "synth",
                                         ![h].respond_calls = 1,
                                         ![h].accepted = TRUE]
               /\ managers' = SetSpeaking(s, TRUE)
               /\ UNCHANGED running
     /\ UNCHANGED << epVars, dispatch, suppress, pureVars, nDelivered, ws_sent >>

\* Abort without line 64 / 74 / 78 / 98 / 126: is_speaking stays set.
AbortKeepsSpeaking(h, stage) ==
  /\ tasks' = [tasks EXCEPT ![h].pc = "done", ![h].failed = stage]
  /\ UNCHANGED managers
  /\ running' = 0

\* An except branch of steps 1-4: log, is_speaking = False, return.
Abort(h, stage) ==
  /\ tasks' = [tasks EXCEPT ![h].pc = "done", ![h].failed = stage]
  /\ managers' = SetSpeaking(tasks[h].cm, FALSE)
  /\ running' = 0

\* Lines 48-61: elevenlabs_client.text_to_speech.stream(...) returns.
SynthReturn(h) ==
  /\ tasks[h].pc = "synth"
  /\ running = h
  /\ tasks' = [tasks EXCEPT ![h].pc = "collect"]
  /\ UNCHANGED << epVars, dispatch, suppress, pureVars, managers, nDelivered, running,
                  ws_sent >>

\* Lines 62-65.
SynthRaise(h) ==
  /\ tasks[h].pc = "synth"
  /\ running = h
  /\ Abort(h, "synthesis")
  /\ UNCHANGED << epVars, dispatch, suppress, pureVars, nDelivered, ws_sent >>

\* Lines 68-75: the chunks are joined; an empty result aborts the turn.
Collect(h, chunks) ==
  /\ tasks[h].pc = "collect"
  /\ running = h
  /\ IF Len(Join(chunks)) = 0
       THEN Abort(h, "empty")
       ELSE /\ tasks' = [tasks EXCEPT ![h].pc = "transcode",
                                      ![h].mp3_data = Join(chunks)]
            /\ UNCHANGED << managers, running >>
  /\ UNCHANGED << epVars, dispatch, suppress, pureVars, nDelivered, ws_sent >>

\* Lines 76-79: iterating the stream raises.
CollectRaise(h) ==
  /\ tasks[h].pc = "collect"
  /\ running = h
  /\ Abort(h, "collect")
  /\ UNCHANGED << epVars, dispatch, suppress, pureVars, nDelivered, ws_sent >>

\* The send the loop of lines 107-121 is suspended at, for offset i; past the
\* end of the buffer, the send of the mark (line 136).
NextAwait(b, i) == IF i < Len(b) THEN "await_media" ELSE "await_mark"

\* Lines 82-94, then lines 103-121 up to the first await: pydub yields the
\* mu-law bytes, and the invocation suspends at its first send_text.
Transcode(h, b) ==
  /\ tasks[h].pc = "transcode"
  /\ running = h
  /\ tasks' = [tasks EXCEPT ![h].pc = NextAwait(b, 0),
                            ![h].output_bytes = b,
                            ![h].i = 0]
  /\ running' = 0
  /\ UNCHANGED << epVars, dispatch, suppress, pureVars, managers, nDelivered, ws_sent >>

\* Lines 96-99.
TranscodeRaise(h) ==
  /\ tasks[h].pc = "transcode"
  /\ running = h
  /\ Abort(h, "transcode")
  /\ UNCHANGED << epVars, dispatch, suppress, pureVars, nDelivered, ws_sent >>

\* The media message with the slice one byte short
\* (output_bytes[i:i + chunk_size - 1]).
MediaMessageShort(h) ==
  [turn |-> h, event |-> "media",
   streamSid |-> managers[tasks[h].cm].stream_sid,
   payload |-> B64Encode(Slice(tasks[h].output_bytes, tasks[h].i,
                               tasks[h].i + chunk_size - 1))]

\* Lines 109-120: the media message for the chunk at offset i.
MediaMessage(h) ==
  [turn |-> h, event |-> "media",
   streamSid |-> managers[tasks[h].cm].stream_sid,
   payload |-> B64Encode(Slice(tasks[h].output_bytes, tasks[h].i,
                               tasks[h].i + chunk_size))]

\* Lines 131-135.
MarkMessage(h) ==
  [turn |-> h, event |-> "mark",
   streamSid |-> managers[tasks[h].cm].stream_sid,
   payload |-> <<>>]

Sent(msg, result) ==
  Append(ws_sent, [turn |-> msg.turn, event |-> msg.event,
                   streamSid |-> msg.streamSid, payload |-> msg.payload,
                   result |-> result])

\* Line 121 completes: the loop steps by chunk_size and suspends at the next
\* send (line 121 again, or line 136 after the loop).
MediaSent(h) ==
  /\ tasks[h].pc = "await_media"
  /\ running = 0
  /\ ws_open
  /\ ws_sent' = Sent(MediaMessage(h), "ok")
  /\ tasks' = [tasks EXCEPT
                 ![h].i = tasks[h].i + chunk_size,
                 ![h].pc = NextAwait(tasks[h].output_bytes, tasks[h].i + chunk_size)]
  /\ UNCHANGED << epVars, dispatch, suppress, pureVars, managers, nDelivered, running >>

\* Line 121 raises and the loop swallows the error: it goes on with the next
\* chunk, and with the mark after the last one.
MediaRaiseGoesOn(h) ==
  /\ tasks[h].pc = "await_media"
  /\ running = 0
  /\ ws_sent' = Sent(MediaMessage(h), "failed")
  /\ tasks' = [tasks EXCEPT
                 ![h].i = tasks[h].i + chunk_size,
                 ![h].pc = NextAwait(tasks[h].output_bytes, tasks[h].i + chunk_size)]
  /\ UNCHANGED << epVars, dispatch, suppress, pureVars, managers, nDelivered, running >>

\* Line 121 raises (the socket is closed, the network fails): lines 124-127.
MediaRaise(h) ==
  /\ tasks[h].pc = "await_media"
  /\ running = 0
  /\ ws_sent' = Sent(MediaMessage(h), "failed")
  /\ Abort(h, "media")
  /\ UNCHANGED << epVars, dispatch, suppress, pureVars, nDelivered >>

\* The task is cancelled while suspended at line 121: CancelledError is not
\* an Exception, so lines 124-127 do not run and the error leaves
\* handle_response and on_message.
MediaCancelled(h) ==
  /\ tasks[h].pc = "await_media"
  /\ running = 0
  /\ ws_sent' = Sent(MediaMessage(h), "cancelled")
  /\ tasks' = [tasks EXCEPT ![h].pc = "cancelled"]
  /\ UNCHANGED << epVars, dispatch, suppress, pureVars, managers, nDelivered, running >>

\* Line 136 completes, then lines 141-142.
MarkSent(h) ==
  /\ tasks[h].pc = "await_mark"
  /\ running = 0
  /\ ws_open
  /\ ws_sent' = Sent(MarkMessage(h), "ok")
  /\ tasks' = [tasks EXCEPT ![h].pc = "done"]
  /\ managers' = SetSpeaking(tasks[h].cm, FALSE)
  /\ UNCHANGED << epVars, dispatch, suppress, pureVars, nDelivered, running >>

\* Line 136 raises and the call returns from the except branch, without
\* line 141.
MarkRaiseKeepsSpeaking(h) ==
  /\ tasks[h].pc = "await_mark"
  /\ running = 0
  /\ ws_sent' = Sent(MarkMessage(h), "failed")
  /\ tasks' = [tasks EXCEPT ![h].pc = "done", ![h].failed = "mark"]
  /\ UNCHANGED << epVars, dispatch, suppress, pureVars, managers, nDelivered, running >>

\* Line 136 raises: lines 138-139 log it, then lines 141-142.
MarkRaise(h) ==
  /\ tasks[h].pc = "await_mark"
  /\ running = 0
  /\ ws_sent' = Sent(MarkMessage(h), "failed")
  /\ tasks' = [tasks EXCEPT ![h].pc = "done", ![h].failed = "mark"]
  /\ managers' = SetSpeaking(tasks[h].cm, FALSE)
  /\ UNCHANGED << epVars, dispatch, suppress, pureVars, nDelivered, running >>

\* The task is cancelled while suspended at line 136: lines 141-142 do not
\* run.
MarkCancelled(h) ==
  /\ tasks[h].pc = "await_mark"
  /\ running = 0
  /\ ws_sent' = Sent(MarkMessage(h), "cancelled")
  /\ tasks' = [tasks EXCEPT ![h].pc = "cancelled"]
  /\ UNCHANGED << epVars, dispatch, suppress, pureVars, managers, nDelivered, running >>

(***************************************************************************)
(* Specification.                                                           *)
(***************************************************************************)
Next ==
  \/ DgStartOk
  \/ DgStartRaise
  \/ \E m \in Malformed : RecvMalformed(m)
  \/ \E m \in WellFormed :
       \/ RecvStart(m)
       \/ RecvMedia(m)
       \/ RecvOther(m)
  \/ RecvStop
  \/ Disconnect
  \/ \E sentence \in Sentences, is_final \in BOOLEAN : OnMessage(sentence, is_final)
  \/ \E h \in Handlers :
       \/ LlmReturn(h)
       \/ LlmRaise(h)
       \/ HandleResponse(h)
       \/ SynthReturn(h)
       \/ SynthRaise(h)
       \/ \E chunks \in MP3Streams : Collect(h, chunks)
       \/ CollectRaise(h)
       \/ \E b \in Buffers : Transcode(h, b)
       \/ TranscodeRaise(h)
       \/ MediaSent(h)
       \/ MediaRaise(h)
       \/ MediaCancelled(h)
       \/ MarkSent(h)
       \/ MarkRaise(h)
       \/ MarkCancelled(h)

Spec == Init /\ [][Next]_vars

\* A step of an on_message invocation: a synchronous call of it returns or
\* raises, or a send it is suspended at ends.
PipelineStep ==
  \E h \in Handlers :
    \/ LlmReturn(h)
    \/ LlmRaise(h)
    \/ HandleResponse(h)
    \/ SynthReturn(h)
    \/ SynthRaise(h)
    \/ \E chunks \in MP3Streams : Collect(h, chunks)
    \/ CollectRaise(h)
    \/ \E b \in Buffers : Transcode(h, b)
    \/ TranscodeRaise(h)
    \/ MediaSent(h)
    \/ MediaRaise(h)
    \/ MediaCancelled(h)
    \/ MarkSent(h)
    \/ MarkRaise(h)
    \/ MarkCancelled(h)

\* The bridge when every external call eventually returns or raises and the
\* event loop eventually resumes a coroutine whose await has ended.
SpecLive == Init /\ [][Next]_vars /\ WF_vars(PipelineStep)

\* The same bridge under the suppression policy of the media branch.
InitSuppress ==
  /\ InitCommon
  /\ suppress = TRUE
  /\ PureIdle

SpecSuppress == InitSuppress /\ [][Next]_vars

(***************************************************************************)
(* vapi_webhook (src/vapi_agent.py): one request to the tool webhook.       *)
(***************************************************************************)
\* Tool calls one request carries at most.
MaxToolCalls == 2

\* The function registry.
TOOL_FUNCTIONS == {"getWeather"}

CallIds == {"call_1", "call_2"}

\* One entry of message["toolCalls"].
ToolCalls ==
  [id : CallIds, type : {"function", "other"},
   name : {"getWeather", "bookFlight"}]

RECURSIVE SeqsUpTo(_, _)
SeqsUpTo(S, n) ==
  IF n = 0 THEN {<<>>}
  ELSE LET shorter == SeqsUpTo(S, n - 1)
       IN shorter \cup {Append(q, x) : q \in {r \in shorter : Len(r) = n - 1},
                                       x \in S}

\* The requests: the message's type, whether it has "toolCalls", the tool
\* calls, and whether VAPI_API_KEY is set in the environment.
Requests ==
  [type : {"tool-calls", "status-update"}, has_toolCalls : BOOLEAN,
   toolCalls : SeqsUpTo(ToolCalls, MaxToolCalls), has_key : BOOLEAN]

\* The bridge at rest, a request received: vapi_webhook is entered.
InitWebhook ==
  /\ InitCommon
  /\ dispatch = "sequential"
  /\ suppress = FALSE
  /\ request \in Requests
  /\ webhook = [WebhookIdle EXCEPT !.pc = "start"]
  /\ mp3_input = NoAudio
  /\ conversion = ConversionIdle

bridgeVars == << pc_ep, exc, ws_open, dg_open, dispatch, suppress, nMedia,
                 stream_sid, conversation_manager, managers, dg_sent, tasks,
                 nDelivered, running, ws_sent >>

IsToolCalls == request.type = "tool-calls" /\ request.has_toolCalls

\* Lines 67-68: not a tool-calls message: the empty results are returned.
WebhookNotToolCalls ==
  /\ webhook.pc = "start"
  /\ ~IsToolCalls
  /\ webhook' = [webhook EXCEPT !.pc = "returned", !.status = 200]
  /\ UNCHANGED << bridgeVars, request, mp3_input, conversion >>

\* Lines 70-71 and 104-106: VAPI_API_KEY is not set: HTTP 500.
WebhookNoKey ==
  /\ webhook.pc = "start"
  /\ IsToolCalls
  /\ ~request.has_key
  /\ webhook' = [webhook EXCEPT !.pc = "raised", !.status = 500]
  /\ UNCHANGED << bridgeVars, request, mp3_input, conversion >>

\* Line 73: the loop over message["toolCalls"] is entered.
WebhookLoop ==
  /\ webhook.pc = "start"
  /\ IsToolCalls
  /\ request.has_key
  /\ webhook' = [webhook EXCEPT !.pc = "loop", !.n = 1]
  /\ UNCHANGED << bridgeVars, request, mp3_input, conversion >>

\* The tool call the loop is at.
AtToolCall ==
  /\ webhook.pc = "loop"
  /\ webhook.n <= Len(request.toolCalls)

\* Lines 74-80: the test that lets a tool call through to its execution.
Executable(tool_call) ==
  /\ tool_call.type = "function"
  /\ tool_call.name \in TOOL_FUNCTIONS

\* Lines 74-80: `continue` on a type other than function or on a function
\* that is not registered.
ToolCallSkip ==
  /\ AtToolCall
  /\ ~Executable(request.toolCalls[webhook.n])
  /\ webhook' = [webhook EXCEPT !.n = webhook.n + 1]
  /\ UNCHANGED << bridgeVars, request, mp3_input, conversion >>

\* What lines 90-93 / 97-100 append.
ResultEntry(tool_call, kind) == [toolCallId |-> tool_call.id, kind |-> kind]

\* Lines 82-93: the function is executed and its result appended.
ToolCallResult ==
  /\ AtToolCall
  /\ Executable(request.toolCalls[webhook.n])
  /\ webhook' = [webhook EXCEPT
                   !.n = webhook.n + 1,
                   !.results = Append(webhook.results,
                                 ResultEntry(request.toolCalls[webhook.n], "result"))]
  /\ UNCHANGED << bridgeVars, request, mp3_input, conversion >>

\* Lines 95-100: the arguments or the call raise; the error is appended.
ToolCallError ==
  /\ AtToolCall
  /\ Executable(request.toolCalls[webhook.n])
  /\ webhook' = [webhook EXCEPT
                   !.n = webhook.n + 1,
                   !.results = Append(webhook.results,
                                 ResultEntry(request.toolCalls[webhook.n], "error"))]
  /\ UNCHANGED << bridgeVars, request, mp3_input, conversion >>

\* Line 102: return {"results": results}.
WebhookReturn ==
  /\ webhook.pc = "loop"
  /\ webhook.n > Len(request.toolCalls)
  /\ webhook' = [webhook EXCEPT !.pc = "returned", !.status = 200]
  /\ UNCHANGED << bridgeVars, request, mp3_input, conversion >>

NextWebhook ==
  \/ WebhookNotToolCalls
  \/ WebhookNoKey
  \/ WebhookLoop
  \/ ToolCallSkip
  \/ ToolCallResult
  \/ ToolCallError
  \/ WebhookReturn

SpecWebhook == InitWebhook /\ [][NextWebhook]_vars

(***************************************************************************)
(* Step 3 of handle_response: the pydub conversion, taken on its own.       *)
(***************************************************************************)
\* Sample rates and lengths of the audio the synthesis may return.
SourceRates == {8000, 16000, 22050, 44100}

Durations == {0, 20, 100, 1000}

\* The frame rate of line 89.
TwilioRate == 8000

AudioInputs ==
  [decodes : BOOLEAN, frame_rate : SourceRates, channels : {1, 2},
   duration_ms : Durations]

\* The bridge at rest, mp3_data in hand: step 3 is entered.
InitTranscoder ==
  /\ InitCommon
  /\ dispatch = "sequential"
  /\ suppress = FALSE
  /\ request = NoRequest
  /\ webhook = WebhookIdle
  /\ mp3_input \in AudioInputs
  /\ conversion = [ConversionIdle EXCEPT !.pc = "start"]

\* Line 85: AudioSegment.from_file decodes the MP3 into PCM frames at the
\* file's own rate and channel count.
FromFile ==
  /\ conversion.pc = "start"
  /\ mp3_input.decodes
  /\ conversion' =
       [conversion EXCEPT
          !.pc = "loaded",
          !.audio_segment =
             [frame_rate |-> mp3_input.frame_rate,
              channels |-> mp3_input.channels,
              frame_count |-> (mp3_input.duration_ms * mp3_input.frame_rate) \div 1000]]
  /\ UNCHANGED << bridgeVars, request, webhook, mp3_input >>

\* Line 85 raises on data ffmpeg cannot decode: lines 96-99.
FromFileRaise ==
  /\ conversion.pc = "start"
  /\ ~mp3_input.decodes
  /\ conversion' = [conversion EXCEPT !.pc = "raised"]
  /\ UNCHANGED << bridgeVars, request, webhook, mp3_input >>

\* Line 89: set_frame_rate(8000) resamples; the channels stay as they are.
SetFrameRate ==
  /\ conversion.pc = "loaded"
  /\ conversion' =
       [conversion EXCEPT
          !.pc = "resampled",
          !.resampled_audio =
             [frame_rate |-> TwilioRate,
              channels |-> conversion.audio_segment.channels,
              frame_count |-> (conversion.audio_segment.frame_count * TwilioRate)
                                \div conversion.audio_segment.frame_rate]]
  /\ UNCHANGED << bridgeVars, request, webhook, mp3_input >>

\* Line 93: export(format="mulaw") encodes each sample of each channel as one
\* mu-law byte, at the segment's rate and channel count.
Export ==
  /\ conversion.pc = "resampled"
  /\ conversion' =
       [conversion EXCEPT
          !.pc = "exported",
          !.output =
             [encoding |-> "mulaw",
              frame_rate |-> conversion.resampled_audio.frame_rate,
              channels |-> conversion.resampled_audio.channels,
              nbytes |-> conversion.resampled_audio.frame_count
                           * conversion.resampled_audio.channels]]
  /\ UNCHANGED << bridgeVars, request, webhook, mp3_input >>

NextTranscoder ==
  \/ FromFile
  \/ FromFileRaise
  \/ SetFrameRate
  \/ Export

SpecTranscoder == InitTranscoder /\ [][NextTranscoder]_vars

(***************************************************************************)
(* Vocabulary of the properties.                                            *)
(***************************************************************************)
Last(q) == q[Len(q)]

Sessions == 1..Len(managers)

\* handle_response calls that passed the gate of lines 39-43 and have not
\* ended: the response pipelines in flight.
PipelineInFlight(h) == tasks[h].accepted /\ InFlight(h)

\* Line 175 awaits handle_response, so the on_message invocation is open for
\* as long as what it called.
OnMessageRunning(h) == InFlight(h)

\* The step ends invocation h.
Ends(h) == InFlight(h) /\ ~InFlight(h)'

\* The step is a handle_response call on a speaking session (line 39 true).
Rejected(h) ==
  /\ tasks[h].pc = "respond"
  /\ tasks'[h].pc # "respond"
  /\ managers[tasks[h].cm].is_speaking

\* The stages of handle_response at which a failure can occur.
Stages == {"synthesis", "collect", "empty", "transcode", "media", "mark"}

\* The step is a failure of invocation h at one of the stages.
FailsIn(h) == tasks[h].failed = "none" /\ tasks'[h].failed \in Stages

\* The step cancels invocation h at a send.
CancelledIn(h) ==
  /\ InFlight(h)
  /\ Len(ws_sent') = Len(ws_sent) + 1
  /\ Last(ws_sent').turn = h
  /\ Last(ws_sent').result = "cancelled"

(***************************************************************************)
(* C1.  A handle_response call made while an earlier one on the same        *)
(* session is in flight is a no-op (no send, no synthesis call, is_speaking *)
(* unchanged); so at most one response pipeline is in flight per session;   *)
(* and is_speaking goes true -> false exactly once per accepted call.       *)
(***************************************************************************)
\* At most one response pipeline in flight per session.
C1_AtMostOne ==
  \A s \in Sessions :
    Cardinality({h \in Handlers : PipelineInFlight(h) /\ tasks[h].cm = s}) <= 1

\* A rejected call changes nothing but its own return.
C1_NoOp ==
  \A h \in Handlers :
    Rejected(h) => /\ tasks'[h].pc = "done"
                   /\ ~tasks'[h].accepted
                   /\ ws_sent' = ws_sent
                   /\ managers' = managers

\* is_speaking of a session falls exactly in the steps that end an accepted
\* call on it: once per accepted call, and never otherwise.
C1_ExactlyOnce ==
  \A s \in Sessions :
    (managers[s].is_speaking /\ ~managers'[s].is_speaking)
      <=> (\E h \in Handlers : tasks[h].accepted /\ tasks[h].cm = s /\ Ends(h))

\* The gate alone: what of C1 the code keeps.
C1_Gate == [](C1_AtMostOne) /\ [][C1_NoOp]_vars

\* C1 as claimed.
C1_AsClaimed == [](C1_AtMostOne) /\ [][C1_NoOp /\ C1_ExactlyOnce]_vars

\* A second call is rejected while the first is suspended at a send.
C1_Witness ==
  \E h, k \in Handlers :
    /\ h # k
    /\ PipelineInFlight(h)
    /\ tasks[k].pc = "done"
    /\ tasks[k].respond_calls = 1
    /\ ~tasks[k].accepted
    /\ tasks[k].cm = tasks[h].cm

(***************************************************************************)
(* C2.  Whatever stage of an accepted handle_response call fails (the       *)
(* synthesis call, collecting the chunks, an empty result, transcoding,     *)
(* sending a media frame, sending the mark), the call returns normally and  *)
(* is_speaking is false when it returns.                                    *)
(***************************************************************************)
\* C2: a failing step of an accepted call ends it in a normal return with
\* is_speaking false.
C2_FailureContained ==
  [][\A h \in Handlers :
       FailsIn(h) => /\ tasks[h].accepted
                     /\ tasks'[h].pc = "done"
                     /\ ~managers'[tasks[h].cm].is_speaking]_vars

\* Both a media send and a mark send have failed.
C2_Witness ==
  \E h, k \in Handlers :
    /\ tasks[h].failed = "media"
    /\ tasks[k].failed = "mark"
    /\ tasks[h].pc = "done"
    /\ tasks[k].pc = "done"

(***************************************************************************)
(* C3.  A call cancelled while handle_response is suspended at a send       *)
(* raises no unhandled error and leaves is_speaking false.                  *)
(***************************************************************************)
\* C3 as claimed: the cancelled call returns and is_speaking is false.
C3_AsClaimed ==
  [][\A h \in Handlers :
       CancelledIn(h) => /\ tasks'[h].pc = "done"
                         /\ ~managers'[tasks[h].cm].is_speaking]_vars

(***************************************************************************)
(* C4.  Under the suppression policy, a media event the receive loop        *)
(* processes while the session is speaking is not forwarded to Deepgram; one *)
(* processed while it is not speaking is forwarded, base64-decoded.          *)
(***************************************************************************)
\* C4: each processed media event is dropped if the session is speaking and
\* forwarded decoded if not.
C4_Suppression ==
  [][nMedia' = nMedia + 1 =>
       IF Speaking
         THEN dg_sent' = dg_sent
         ELSE \E a \in InboundAudio : dg_sent' = Append(dg_sent, a)]_vars

\* One media event was forwarded and a later one, read while the session was
\* speaking, was not.
C4_Witness ==
  /\ suppress
  /\ Speaking
  /\ nMedia = 2
  /\ Len(dg_sent) = 1

(***************************************************************************)
(* C5.  When every media send of a turn has succeeded, the turn has emitted  *)
(* exactly ceil(N / chunk_size) media messages for its buffer of N bytes,    *)
(* each carrying at most chunk_size bytes and only the last possibly fewer,  *)
(* and the base64-decoded payloads, concatenated in emission order, are the  *)
(* buffer.                                                                  *)
(***************************************************************************)
\* The media messages of turn h that were sent, in emission order.
MediaOf(h) ==
  LET mine(e) == e.turn = h /\ e.event = "media" /\ e.result = "ok"
  IN SelectSeq(ws_sent, mine)

\* Every send of the outbound loop of turn h has succeeded (the loop of
\* lines 107-121 has run to its end).
AllMediaSent(h) ==
  /\ tasks[h].accepted
  /\ tasks[h].pc \in {"await_mark", "done", "cancelled"}
  /\ tasks[h].failed \in {"none", "mark"}
  /\ tasks[h].i >= Len(tasks[h].output_bytes)

\* C5: ceil(N / chunk_size) frames, full but for the last, that decode and
\* concatenate to the buffer.
C5_Pacer ==
  \A h \in Handlers :
    AllMediaSent(h) =>
      LET frames == MediaOf(h)
          bytes == [k \in 1..Len(frames) |-> B64Decode(frames[k].payload)]
          N == Len(tasks[h].output_bytes)
      IN /\ Len(frames) = CeilDiv(N, chunk_size)
         /\ \A k \in 1..Len(frames) :
              /\ B64Valid(frames[k].payload)
              /\ Len(bytes[k]) <= chunk_size
              /\ Len(bytes[k]) >= 1
              /\ k < Len(frames) => Len(bytes[k]) = chunk_size
         /\ Join(bytes) = tasks[h].output_bytes

\* A buffer of several full frames and a shorter last one has been sent.
C5_Witness ==
  \E h \in Handlers :
    /\ AllMediaSent(h)
    /\ Len(MediaOf(h)) >= 2
    /\ Len(tasks[h].output_bytes) % chunk_size # 0

(***************************************************************************)
(* C6.  Per accepted turn, the mark is sent exactly once, after the turn's   *)
(* last media frame, if and only if every media frame of the turn was sent   *)
(* successfully; once a media send fails, the turn sends no further media    *)
(* frame and no mark.  ("Sent" is the send_text call; whether the mark's own *)
(* send succeeds is C2's matter.)                                            *)
(***************************************************************************)
\* Indices in ws_sent of the send_text calls of turn h for event ev.
SendsOf(h, ev) ==
  {j \in 1..Len(ws_sent) : ws_sent[j].turn = h /\ ws_sent[j].event = ev}

\* Turn h got as far as the outbound loop: pydub produced its buffer.
ReachedDelivery(h) ==
  /\ tasks[h].accepted
  /\ tasks[h].pc \in {"await_media", "await_mark", "done", "cancelled"}
  /\ tasks[h].failed \in {"none", "media", "mark"}

\* Every frame of turn h's buffer was sent successfully.
EveryFrameSent(h) ==
  /\ ReachedDelivery(h)
  /\ Len(MediaOf(h)) = CeilDiv(Len(tasks[h].output_bytes), chunk_size)

\* C6: at most one mark per turn, after all the turn's media sends, none
\* after a media send that did not succeed, and one exactly when every frame
\* was sent.
C6_Mark ==
  \A h \in Handlers :
    /\ Cardinality(SendsOf(h, "mark")) <= 1
    /\ \A j \in SendsOf(h, "mark"), k \in SendsOf(h, "media") : k < j
    /\ \A k \in SendsOf(h, "media") :
         ws_sent[k].result # "ok" =>
           \A j \in SendsOf(h, "media") \cup SendsOf(h, "mark") : j <= k
    /\ SendsOf(h, "mark") # {} => EveryFrameSent(h)
    /\ (tasks[h].accepted /\ ~InFlight(h)) =>
         (Cardinality(SendsOf(h, "mark")) = 1 <=> EveryFrameSent(h))

\* One turn sent all its frames and its mark; another lost its second frame
\* and sent no mark.
C6_Witness ==
  \E h, k \in Handlers :
    /\ tasks[h].pc = "done"
    /\ Len(MediaOf(h)) >= 2
    /\ SendsOf(h, "mark") # {}
    /\ tasks[k].pc = "done"
    /\ tasks[k].failed = "media"
    /\ Len(MediaOf(k)) >= 1
    /\ SendsOf(k, "mark") = {}

(***************************************************************************)
(* C7.  As claimed: for every transcript event, language generation and the *)
(* response pipeline are each triggered exactly once if the text is         *)
(* non-empty, is_final is true and a session exists, and not at all         *)
(* otherwise.                                                               *)
(***************************************************************************)
\* The event of invocation h asks for a reply: line 159 false, line 164 true.
Triggers(h) ==
  /\ tasks[h].sentence # ""
  /\ tasks[h].is_final
  /\ tasks[h].cm # 0

Once(b) == IF b THEN 1 ELSE 0

C8_AsClaimed ==
  \A h \in Handlers :
    PipelineInFlight(h) =>
      /\ ~OnMessageRunning(h)
      /\ (dg_open /\ running = 0 /\ nDelivered < MaxHandlers) => CanDeliver

(***************************************************************************)
(* C9.  No inbound media frame is forwarded to Deepgram before a start      *)
(* event has been processed, and none after a stop event or a disconnect.   *)
(***************************************************************************)
\* C9 as claimed: audio reaches dg_connection.send only in the receive loop
\* and only once a start event has set conversation_manager.
C9_AsClaimed ==
  [][dg_sent' # dg_sent => /\ conversation_manager # 0
                           /\ pc_ep = "receive"
                           /\ pc_ep' = "receive"]_vars

(***************************************************************************)
(* C10.  A malformed inbound message (not JSON, a start event without a     *)
(* stream identifier, a media event without a decodable payload) does not   *)
(* end the call: the receive loop goes on; only a stop event or a           *)
(* disconnect ends it.                                                      *)
(***************************************************************************)
\* The exceptions decoding one inbound text can raise.
DecodeErrors == {"JSONDecodeError", "KeyError", "binascii.Error"}

\* C10 as claimed: no decode error ever leaves the receive loop, which ends
\* only by a stop event or a disconnect.
C10_AsClaimed ==
  /\ exc \notin DecodeErrors
  /\ pc_ep \in {"dg_start", "receive", "stopped", "disconnected"}
       \/ exc = "ConnectError"

(***************************************************************************)
(* C11.  For every call whose Deepgram connection was opened, and however   *)
(* the call ends (stop event, disconnect, error in the receive loop), the   *)
(* connection is finished before websocket_endpoint returns.                *)
(***************************************************************************)
\* websocket_endpoint is over: it returned or an exception left it.
Returned == {"stopped", "disconnected", "raised"}

\* C11 as claimed: once websocket_endpoint is over, a Deepgram connection
\* that had been opened is open no more.
C11_AsClaimed == pc_ep \in Returned => ~dg_open

(***************************************************************************)
(* C12.  If the OpenAI call for a final transcript fails, only that turn is *)
(* aborted: it sends no media and no mark, the error does not leave         *)
(* on_message, and the call stays open.                                     *)
(***************************************************************************)
\* C12 as claimed: a turn whose OpenAI call failed has sent nothing and its
\* on_message invocation has returned normally.
C12_AsClaimed ==
  \A h \in Handlers :
    tasks[h].failed = "llm" =>
      /\ SendsOf(h, "media") = {}
      /\ SendsOf(h, "mark") = {}
      /\ tasks[h].pc = "done"

(***************************************************************************)
(* C13.  The speaking gate is checked and set before any external I/O of a  *)
(* turn: the OpenAI call, the ElevenLabs call and every send happen only    *)
(* while is_speaking is true for that turn, and a final transcript that     *)
(* arrives while is_speaking is true causes no OpenAI call.                 *)
(***************************************************************************)
\* The stages at which a turn is inside, or suspended at, an external call.
IOStages == {"llm", "synth", "collect", "await_media", "await_mark"}

\* C13 as claimed: a turn at an external call has passed the gate and holds
\* is_speaking; a turn the gate rejected has made no OpenAI call.
C13_AsClaimed ==
  \A h \in Handlers :
    /\ tasks[h].pc \in IOStages =>
         /\ tasks[h].accepted
         /\ managers[tasks[h].cm].is_speaking
    /\ (tasks[h].respond_calls = 1 /\ ~tasks[h].accepted) =>
         tasks[h].llm_calls = 0

(***************************************************************************)
(* C14.  If the Deepgram connection cannot be established at call start,    *)
(* the whole call is aborted: the Twilio socket is closed, no inbound       *)
(* message is read and no audio is forwarded.  A failure to start the       *)
(* ElevenLabs synthesis aborts only the turn and leaves the call open.      *)
(***************************************************************************)
\* The step is a failure of the ElevenLabs call of invocation h.
SynthFailsIn(h) == tasks[h].failed = "none" /\ tasks'[h].failed = "synthesis"

BlockingStages == {"llm", "synth", "collect", "transcode"}

\* C15 as claimed: a receive loop waiting for the next text can read it
\* whatever stage a turn is in.
C15_AsClaimed ==
  \A h \in Handlers :
    (tasks[h].pc \in BlockingStages /\ pc_ep = "receive") => CanReceive

(***************************************************************************)
(* C16.  After a stop event or a disconnect, websocket_endpoint does not    *)
(* return while a response pipeline of the call is in flight, so no media   *)
(* or mark send is attempted after the call is closed.                      *)
(***************************************************************************)
\* The call ended by a stop event or a disconnect.
Closed == {"stopped", "disconnected"}

\* C16 as claimed: no pipeline is in flight once the handler has returned,
\* and no send_text call is made from then on.
C16_AsClaimed ==
  /\ [](pc_ep \in Closed => \A h \in Handlers : ~PipelineInFlight(h))
  /\ [][(pc_ep \in Closed) => UNCHANGED ws_sent]_vars

(***************************************************************************)
(* C17.  After a turn fails at any stage (OpenAI, synthesis, empty result,  *)
(* transcode, delivery), the call remains live: provided every external     *)
(* call eventually returns or fails, is_speaking eventually becomes false   *)
(* again, and a final transcript that arrives after that is accepted and    *)
(* produces its media frames and its mark.                                  *)
(***************************************************************************)
\* Turn h has failed, at the OpenAI call or at a stage of handle_response.
Failed(h) == tasks[h].failed # "none"

\* The session turn h belongs to is not speaking (a turn that has failed has
\* a session: line 164).
SessionIdle(h) ==
  \/ tasks[h].cm = 0
  \/ ~managers[tasks[h].cm].is_speaking

\* No send has been cancelled: every external call has returned or failed.
NoCancel == \A h \in Handlers : tasks[h].pc # "cancelled"

\* Between its delivery and the gate of line 39, invocation k holds the event
\* loop: no other step changes a session's is_speaking.
GateUndisturbed ==
  \A k \in Handlers :
    tasks[k].pc \in {"llm", "respond"} =>
      \/ managers' = managers
      \/ tasks'[k].accepted

\* A call that finds is_speaking false is accepted.
GateAccepts ==
  \A k \in Handlers :
    (tasks[k].pc = "respond" /\ tasks'[k].pc # "respond"
       /\ ~managers[tasks[k].cm].is_speaking) => tasks'[k].accepted

\* An accepted turn that ended without a failure of its own has sent every
\* frame of its buffer and then its mark.
Produced(k) ==
  /\ EveryFrameSent(k)
  /\ \E j \in SendsOf(k, "mark") : ws_sent[j].result = "ok"

C18_AsClaimed ==
  (webhook.pc = "returned" /\ IsToolCalls) =>
    /\ Len(webhook.results) = Len(request.toolCalls)
    /\ \A j \in 1..Len(webhook.results) :
         /\ j <= Len(request.toolCalls)
         /\ webhook.results[j].toolCallId = request.toolCalls[j].id
         /\ webhook.results[j].kind \in {"result", "error"}

(***************************************************************************)
(* C19.  For every synthesized audio buffer that decodes, whatever its      *)
(* sample rate and channel count, the output of the conversion is 8000 Hz,  *)
(* mono, mu-law: one byte per sample, duration x 8000 bytes.                *)
(***************************************************************************)
\* C19 as claimed.
C19_AsClaimed ==
  conversion.pc = "exported" =>
    /\ conversion.output.encoding = "mulaw"
    /\ conversion.output.frame_rate = 8000
    /\ conversion.output.channels = 1
    /\ conversion.output.nbytes * 1000 = mp3_input.duration_ms * 8000

(***************************************************************************)
(* C20.  On one call's websocket the messages of different turns never      *)
(* interleave: the outbound sequence is a concatenation of per-turn blocks, *)
(* each the turn's media frames in increasing buffer offset, then possibly  *)
(* its mark.                                                                *)
(***************************************************************************)
\* The messages that went out on the websocket, in order.
Outbound ==
  LET ok(e) == e.result = "ok"
  IN SelectSeq(ws_sent, ok)

\* The bytes of turn h's frames that went out, in order.
BytesOut(h) ==
  LET frames == MediaOf(h)
  IN Join([k \in 1..Len(frames) |-> B64Decode(frames[k].payload)])

\* C20 as claimed: the messages of a turn are contiguous in the outbound
\* sequence, its frames are the buffer from offset 0 on in order, and its
\* mark comes after them.
C20_AsClaimed ==
  /\ \A j, l \in 1..Len(Outbound) :
       (j < l /\ Outbound[j].turn = Outbound[l].turn) =>
         \A k \in j..l : Outbound[k].turn = Outbound[j].turn
  /\ \A h \in Handlers :
       /\ BytesOut(h) = SubSeq(tasks[h].output_bytes, 1, Len(BytesOut(h)))
       /\ \A j \in SendsOf(h, "mark"), k \in SendsOf(h, "media") : k < j

(***************************************************************************)
(* C21.  Whatever the inbound events, several start events included, the    *)
(* call has a single session: a start event received while a response       *)
(* pipeline is in flight does not replace the session or reset its speaking *)
(* flag, so a final transcript arriving right after it cannot start a       *)
(* second pipeline on the same websocket while the first is still sending.  *)
(***************************************************************************)
\* The response pipelines in flight on the call's websocket.
PipelinesInFlight == {h \in Handlers : PipelineInFlight(h)}

\* The step processes a start event: line 188 has made a ConversationManager.
StartStep == Len(managers') = Len(managers) + 1

\* C21 as claimed: a start event processed while a pipeline is in flight
\* leaves conversation_manager and its is_speaking as they were, and at
\* most one pipeline is in flight on the websocket.
C21_AsClaimed ==
  /\ [](Cardinality(PipelinesInFlight) <= 1)
  /\ [][(StartStep /\ PipelinesInFlight # {}) =>
          /\ conversation_manager' = conversation_manager
          /\ Speaking = Speaking']_vars


=============================================================================
